---- MODULE Spec2Model ----
(***************************************************************************)
(* Model of the new-employees synchronisation pipeline                     *)
(* (src/app/services/sync.py and the two API clients it drives).           *)
(*                                                                         *)
(* One behaviour is one call of sync().  Every answer of an external       *)
(* collaborator (secret store, Costpoint, Connecteam, S3, SES) is an input *)
(* drawn with \E when the call is made.  One step is one outbound HTTP     *)
(* attempt, or the code that runs between two outbound calls.              *)
(*                                                                         *)
(* Python dicts are insertion ordered: a dict is modelled as a sequence of *)
(* records with distinct keys.  The empty string is modelled as 0 for ids  *)
(* and as <<>> for dates and e-mail addresses.                             *)
(***************************************************************************)
EXTENDS Integers, Sequences, FiniteSets, TLC

\* ------------------------------------------------------------------ bounds
MaxRows == 2        \* rows of one Costpoint answer (projects, roster rows)
MaxUsers == 1       \* users on one Connecteam page
MaxOffset == 1      \* largest paging offset Connecteam answers with
MaxEmps == 3        \* employees in the arguments of a unit call
MaxUnitRows == 3    \* roster rows in the arguments of a unit call

\* the identifiers that occur in the answers of the two systems
EmplIds == {1, 2}
ProjIds == {1, 2}
Cats == {"GUARD"}
SecurityProjs == {1}    \* the project ids that start with "2392"

\* ------------------------------------------------------- program constants
RetryAttempts == 3  \* stamina.retry(on=httpx.TimeoutException, attempts=3)
NoId == 0           \* the empty string in an id or custom field
CF_CP_ID == 15329039    \* Connecteam custom field: Costpoint EMPL_ID
CF_TITLE == 4360692     \* Connecteam custom field: title / labor category
CF_HIRE_DATE == 4360693 \* Connecteam custom field: employment start date
CF_BIRTH_DATE == 4360698 \* Connecteam custom field: birth date
CF_BRANCH == 4360696    \* Connecteam custom field: branch (PROJ_ID)
CF_TEAM == 4360694      \* Connecteam custom field: team

\* an ISO date-time string, as <<year, month, day, hour, minute, second>>
IsoDates == {<<>>, <<2011, 7, 11, 0, 0, 0>>}
Emails == {<<>>, <<"a@b">>}

\* ---------------------------------------------------------------- helpers
SeqsUpTo(S, n) == UNION {[1..k -> S] : k \in 0..n}

Range(s) == {s[k] : k \in 1..Len(s)}

\* keys of an insertion-ordered dict keyed by empl_id
Keys(d) == {d[k].empl_id : k \in 1..Len(d)}

\* d[key] of an insertion-ordered dict keyed by empl_id
Lookup(d, key) == d[CHOOSE k \in 1..Len(d) : d[k].empl_id = key]

VARIABLES
    pc,             \* position of sync() in its code
    deltek_secret,  \* what the secret store answered for costpoint/<client>
    ct_secret,      \* what the secret store answered for connectteam/<client>
    dry_run,        \* the dry_run argument
    exit,           \* "running", "returned", or "raised" (exception left sync)
    status,         \* the integer sync() returns, once exit = "returned"
    log,            \* pipeline-level event types sent to the event service
    deltek_client,  \* "none", "open", "closed"
    ct_client,      \* "none", "open", "closed"
    src_called,     \* a request was sent to Costpoint
    tgt_called,     \* a request was sent to Connecteam
    attempt,        \* attempts already made of the outbound call in progress
    last_outcome,   \* how the attempt of the latest step ended; "none" when
                    \* the latest step made no attempt
    started,        \* phases entered: 1..6, and 7 for the report
    fatal,          \* the exception caught by except Exception: "none",
                    \* "http_error", "timeout", "network_error", "bad_body",
                    \* "s3_error"
    fatal_phase,    \* the phase in which it did
    save_failed,    \* snapshot files whose S3 write raised
    ct_projects,    \* Phase 1: sequence of project ids (dict keys, in order)
    i,              \* index of the loop in progress (Phases 2, 3, 6)
    workforce,      \* Phase 2: dict empl_id -> WorkforceRecord
    rosters,        \* Phase 2: what get_workforce returned, call after call
    looked_up,      \* Phase 3: empl_ids whose get_employee call has ended
    employees,      \* Phase 3: dict empl_id -> EmployeeRecord
    user_status,    \* Phase 4: "active", "archived" or "done"
    offset,         \* Phase 4: paging offset of the next page request
    active_ids,     \* Phase 4: cp ids collected under status active
    archived_ids,   \* Phase 4: cp ids collected under status archived
    existing_cp_ids,\* Phase 4 result
    last_page,      \* Phase 4: the latest page answer and what it met, or <<>>
    listed,         \* Phase 4: the <<status, user>> pairs listed so far
    missing_ids,    \* Phase 5 result
    preview,        \* Phase 6 dry run: the preview list
    results,        \* Phase 6 live: the result list
    post_calls,     \* empl_ids post_user was invoked for, in order
    posts,          \* creation requests sent: [empl_id, outcome], in order
    report,         \* "none", "html_saved", "emailed", "skipped", "send_failed"
    recipients,     \* SES_TO_EMAILS as send_import_email found it: "unread",
                    \* "none" (no address) or "some"
    fn_in,          \* unit call of one function: <<name, arguments...>>
    fn_out          \* unit call of one function: <<>>, then the result

\* the variables of a run of sync()
runvars == <<pc, deltek_secret, ct_secret, dry_run, exit, status, log,
             deltek_client, ct_client, src_called, tgt_called, attempt,
             last_outcome, started, fatal, fatal_phase, save_failed,
             ct_projects, i, workforce, rosters, looked_up, employees,
             user_status, offset, active_ids, archived_ids, existing_cp_ids,
             last_page, listed, missing_ids, preview, results, post_calls,
             posts, report, recipients>>

\* the variables of a unit call
fnvars == <<fn_in, fn_out>>

vars == <<runvars, fnvars>>

\* groups of variables, for UNCHANGED
cfg == <<deltek_secret, ct_secret, dry_run>>
sess == <<deltek_client, ct_client>>
calls == <<src_called, tgt_called>>
p1vars == <<ct_projects>>
p2vars == <<workforce>>
p3vars == <<looked_up, employees>>
p4vars == <<user_status, offset, active_ids, archived_ids, existing_cp_ids>>
p2seen == <<rosters>>
p4seen == <<last_page, listed>>
seen == <<p2seen, p4seen>>
p5vars == <<missing_ids>>
p6vars == <<preview, results, post_calls, posts>>

\* nothing has been read, opened, fetched or sent yet
Fresh ==
    /\ deltek_secret = "unread"
    /\ ct_secret = "unread"
    /\ exit = "running"
    /\ status = 0
    /\ log = {"pipeline_starting"}
    /\ deltek_client = "none"
    /\ ct_client = "none"
    /\ src_called = FALSE
    /\ tgt_called = FALSE
    /\ attempt = 0
    /\ last_outcome = "none"
    /\ started = {}
    /\ fatal = "none"
    /\ fatal_phase = 0
    /\ save_failed = {}
    /\ ct_projects = <<>>
    /\ i = 1
    /\ workforce = <<>>
    /\ rosters = <<>>
    /\ looked_up = <<>>
    /\ employees = <<>>
    /\ user_status = "active"
    /\ offset = 0
    /\ active_ids = {}
    /\ archived_ids = {}
    /\ existing_cp_ids = {}
    /\ last_page = <<>>
    /\ listed = {}
    /\ missing_ids = <<>>
    /\ preview = <<>>
    /\ results = <<>>
    /\ post_calls = <<>>
    /\ posts = <<>>
    /\ report = "none"
    /\ recipients = "unread"

\* the call sync(client_name, dry_run)
Init ==
    /\ pc = "config"
    /\ dry_run \in BOOLEAN
    /\ Fresh
    /\ fn_in = <<>>
    /\ fn_out = <<>>

\* ------------------------------------------------- outcomes of a call
\* What one outbound HTTP attempt can end in: a 2xx answer with a JSON body,
\* a non-2xx answer (raise_for_status raises HTTPStatusError), a timeout
\* (httpx.TimeoutException), another transport error (e.g. ConnectError),
\* a 2xx answer whose body is empty or not JSON (response.json() raises
\* json.JSONDecodeError, which is neither retried nor caught by the clients).
Outcomes == {"ok", "http_error", "timeout", "network_error", "bad_body"}

\* a retry rule that also repeats a call answered with a non-2xx status
ShouldRetryOnStatus(outcome, made) ==
    outcome \in {"timeout", "http_error"} /\ made < RetryAttempts

\* a retry rule that repeats a call after any transport error
ShouldRetryOnTransportError(outcome, made) ==
    outcome \in {"timeout", "network_error"} /\ made < RetryAttempts

\* stamina.retry(on=httpx.TimeoutException, attempts=3): the call is made
\* again iff it timed out and fewer than three attempts were made so far
\* (made counts the attempt that just ended).
ShouldRetry(outcome, made) == outcome = "timeout" /\ made < RetryAttempts

\* ------------------------------------------------------ control helpers
Goto(p, events) ==
    /\ pc' = p
    /\ log' = log \cup events
    /\ UNCHANGED <<exit, status, fatal, fatal_phase>>

\* a return statement inside the try block of sync(): the finally clause
\* runs before the function returns
Return(code, events) ==
    /\ pc' = "finally"
    /\ status' = code
    /\ log' = log \cup events
    /\ UNCHANGED <<exit, fatal, fatal_phase>>

\* an except clause after which sync() still goes on to the report
AbortStillReports(cause, phase) ==
    /\ pc' = "report"
    /\ status' = 1
    /\ log' = log \cup {"pipeline_fatal_error"}
    /\ fatal' = cause
    /\ fatal_phase' = phase
    /\ UNCHANGED exit

\* an except clause that logs the error and falls through to the success code
AbortReturnsZero(cause, phase) ==
    /\ pc' = "finally"
    /\ status' = 0
    /\ log' = log \cup {"pipeline_fatal_error"}
    /\ fatal' = cause
    /\ fatal_phase' = phase
    /\ UNCHANGED exit

\* except Exception at the end of sync(): log pipeline_fatal_error, return 1
Abort(cause, phase) ==
    /\ pc' = "finally"
    /\ status' = 1
    /\ log' = log \cup {"pipeline_fatal_error"}
    /\ fatal' = cause
    /\ fatal_phase' = phase
    /\ UNCHANGED exit

\* an early exit that reports every empty phase result as success
EmptyResultAlwaysZero(phase) == 0

\* an early exit that reports every empty phase result as a failure
EmptyResultAlwaysOne(phase) == 1

\* the status sync() returns when a phase gives an empty result: no projects
\* (Phase 1) and no workforce (Phase 2) are logged as errors and return 1; no
\* active employee (Phase 3) and nothing missing (Phase 5) return 0
EmptyResultStatus(phase) == IF phase \in {1, 2} THEN 1 ELSE 0

\* save_json / save_html: s3_client.put_object either succeeds or raises;
\* neither function catches anything.  ok is the drawn outcome.
SaveRaises(ok) == ~ok

\* ---------------------------------------------------------- configuration
SecretOutcomes ==
    {"ok", "lacks_values", "not_found", "client_error", "no_payload", "bad_json"}

\* SecretsService.get_secret: what the call ends in for one secret
GetSecret(o) ==
    CASE o \in {"ok", "lacks_values"} -> "dict"
      [] o = "client_error" -> "ClientError"   \* re-raised as it is
      [] OTHER -> "ValueError"

\* DeltekConfig.from_env fills absent values with "" and never raises
DeltekFromEnv(o) == "config"

\* ConnecteamConfig.from_env raises ValueError when the key is absent
ConnecteamFromEnv(o) == IF o = "lacks_values" THEN "ValueError" ELSE "config"

\* the try block of sync() that loads the two secrets and builds the configs
ConfigResult(d, c) ==
    IF GetSecret(d) # "dict" THEN GetSecret(d)
    ELSE IF GetSecret(c) # "dict" THEN GetSecret(c)
    ELSE IF DeltekFromEnv(d) # "config" THEN DeltekFromEnv(d)
    ELSE ConnecteamFromEnv(c)

LoadConfig ==
    /\ pc = "config"
    /\ last_outcome' = "none"
    /\ \E d \in SecretOutcomes, c \in SecretOutcomes :
        /\ deltek_secret' = d
        /\ ct_secret' = IF GetSecret(d) = "dict" THEN c ELSE "unread"
        /\ CASE ConfigResult(d, c) = "ValueError" ->
                  /\ pc' = "done"
                  /\ exit' = "returned"
                  /\ status' = 1
                  /\ log' = log \cup {"configuration_error"}
             [] ConfigResult(d, c) = "ClientError" ->
                  /\ pc' = "done"
                  /\ exit' = "raised"
                  /\ UNCHANGED <<status, log>>
             [] OTHER ->
                  /\ pc' = "clients"
                  /\ log' = log \cup {"configurations_loaded"}
                  /\ UNCHANGED <<exit, status>>
    /\ UNCHANGED <<fnvars, seen, recipients>>
    /\ UNCHANGED <<dry_run, sess, calls, attempt, started, fatal, fatal_phase,
                   save_failed, p1vars, i, p2vars, p3vars, p4vars, p5vars,
                   p6vars, report>>

\* deltek_client = DeltekAPIClient(...); ct_client = ConnecteamAPIClient(...)
CreateClients ==
    /\ pc = "clients"
    /\ last_outcome' = "none"
    /\ deltek_client' = "open"
    /\ ct_client' = "open"
    /\ pc' = "p1"
    /\ UNCHANGED <<fnvars, seen, recipients>>
    /\ UNCHANGED <<cfg, exit, status, log, calls, attempt, started, fatal,
                   fatal_phase, save_failed, p1vars, i, p2vars, p3vars,
                   p4vars, p5vars, p6vars, report>>

\* a teardown that runs on the normal path only, not after an exception
FinallyOnSuccessOnly ==
    /\ pc = "finally"
    /\ last_outcome' = "none"
    /\ deltek_client' = IF fatal = "none" THEN "closed" ELSE deltek_client
    /\ ct_client' = IF fatal = "none" THEN "closed" ELSE ct_client
    /\ exit' = "returned"
    /\ pc' = "done"
    /\ UNCHANGED <<fnvars, seen, recipients>>
    /\ UNCHANGED <<cfg, status, log, calls, attempt, started, fatal,
                   fatal_phase, save_failed, p1vars, i, p2vars, p3vars,
                   p4vars, p5vars, p6vars, report>>

\* the finally clause of sync(), then the return
Finally ==
    /\ pc = "finally"
    /\ last_outcome' = "none"
    /\ deltek_client' = "closed"
    /\ ct_client' = "closed"
    /\ exit' = "returned"
    /\ pc' = "done"
    /\ UNCHANGED <<fnvars, seen, recipients>>
    /\ UNCHANGED <<cfg, status, log, calls, attempt, started, fatal,
                   fatal_phase, save_failed, p1vars, i, p2vars, p3vars,
                   p4vars, p5vars, p6vars, report>>

\* ------------------------------------------------------------- Phase 1
\* one row of the project document: its PROJ_ID and whether one of its
\* PJMBASIC_PROJ_NOTES children carries NOTES = filter_notes_value
ProjRows == [proj_id : ProjIds, ct : BOOLEAN]

\* keys of a dict filled by d[k] = v for k in s, in insertion order
RECURSIVE DictKeys(_)
DictKeys(s) ==
    IF s = <<>> THEN <<>>
    ELSE LET front == DictKeys(SubSeq(s, 1, Len(s) - 1))
             last == s[Len(s)]
         IN  IF last \in Range(front) THEN front ELSE Append(front, last)

\* DeltekAPIClient.get_ct_projects, after the answer has arrived
GetCtProjects(rows) ==
    LET IsCt(r) == r.ct
        tagged == SelectSeq(rows, IsCt)
    IN  DictKeys([k \in 1..Len(tagged) |-> tagged[k].proj_id])

\* run_phase_1 and the test that follows it in sync(); one step is one
\* attempt of the project query
Phase1 ==
    /\ pc = "p1"
    /\ started' = started \cup {1}
    /\ src_called' = TRUE
    /\ \E outcome \in Outcomes :
        /\ last_outcome' = outcome
        /\ IF outcome = "ok" THEN
              \E rows \in SeqsUpTo(ProjRows, MaxRows), saved \in BOOLEAN :
                /\ ct_projects' = GetCtProjects(rows)
                /\ attempt' = 0
                /\ IF SaveRaises(saved) THEN
                      /\ save_failed' = save_failed \cup {"ne_ct_projects.json"}
                      /\ Abort("s3_error", 1)
                   ELSE
                      /\ save_failed' = save_failed
                      /\ IF GetCtProjects(rows) = <<>>
                         THEN Return(EmptyResultStatus(1),
                                     {"no_ct_projects_found"})
                         ELSE Goto("p2", {})
           ELSE IF ShouldRetry(outcome, attempt + 1) THEN
              /\ attempt' = attempt + 1
              /\ Goto("p1", {})
              /\ UNCHANGED <<ct_projects, save_failed>>
           ELSE
              /\ attempt' = 0
              /\ Abort(outcome, 1)
              /\ UNCHANGED <<ct_projects, save_failed>>
    /\ UNCHANGED <<fnvars, seen, recipients>>
    /\ UNCHANGED <<cfg, sess, tgt_called, i, p2vars, p3vars, p4vars, p5vars,
                   p6vars, report>>

\* ------------------------------------------------------------- Phase 2
\* one PJM_PROJEMPLLABCAT_PLCWK row of a roster: employee id ("" is NoId),
\* DFLT_FL = "Y", and the billing labor category
RosterRows == [empl_id : EmplIds \cup {NoId}, dflt : BOOLEAN, cat : Cats]

\* a get_workforce that builds the record from the last row with the
\* default flag
GetWorkforceLastDefault(rows, proj) ==
    LET Named(r) == r.empl_id # NoId
        named == SelectSeq(rows, Named)
        ids == DictKeys([k \in 1..Len(named) |-> named[k].empl_id])
        DefaultRows(e) ==
            LET Mine(r) == r.empl_id = e /\ r.dflt IN SelectSeq(named, Mine)
        HasDefault(e) == DefaultRows(e) # <<>>
        kept == SelectSeq(ids, HasDefault)
    IN  [k \in 1..Len(kept) |->
            [empl_id |-> kept[k], proj_id |-> proj,
             bill_lab_cat_cd |->
                 DefaultRows(kept[k])[Len(DefaultRows(kept[k]))].cat]]

\* DeltekAPIClient.get_workforce, after the answer has arrived: the rows are
\* grouped by employee in order of first appearance, and an employee gives
\* one record, from its first row with the default flag, or none
GetWorkforce(rows, proj) ==
    LET Named(r) == r.empl_id # NoId
        named == SelectSeq(rows, Named)
        ids == DictKeys([k \in 1..Len(named) |-> named[k].empl_id])
        DefaultRows(e) ==
            LET Mine(r) == r.empl_id = e /\ r.dflt IN SelectSeq(named, Mine)
        HasDefault(e) == DefaultRows(e) # <<>>
        kept == SelectSeq(ids, HasDefault)
    IN  [k \in 1..Len(kept) |->
            [empl_id |-> kept[k], proj_id |-> proj,
             bill_lab_cat_cd |-> Head(DefaultRows(kept[k])).cat]]

\* an inner loop in which the record of the later project replaces the
\* one stored before
RECURSIVE MergeRecordsLastWins(_, _)
MergeRecordsLastWins(wf, records) ==
    IF records = <<>> THEN wf
    ELSE LET rec == Head(records)
             Other(r) == r.empl_id # rec.empl_id
         IN  MergeRecordsLastWins(Append(SelectSeq(wf, Other), rec),
                                  Tail(records))

\* the inner loop of run_phase_2: a record is stored only when its employee
\* is not yet a key
RECURSIVE MergeRecords(_, _)
MergeRecords(wf, records) ==
    IF records = <<>> THEN wf
    ELSE MergeRecords(
            IF Head(records).empl_id \in Keys(wf) THEN wf
            ELSE Append(wf, Head(records)),
            Tail(records))

\* one attempt of get_workforce for project ct_projects[i], ending in
\* outcome, and on an answer (rows) one turn of the loop of run_phase_2
FetchWorkforce(outcome, rows) ==
    /\ pc = "p2"
    /\ last_outcome' = outcome
    /\ i <= Len(ct_projects)
    /\ started' = started \cup {2}
    /\ IF outcome = "ok" THEN
          /\ workforce' =
                MergeRecords(workforce, GetWorkforce(rows, ct_projects[i]))
          /\ i' = i + 1
          /\ attempt' = 0
          /\ Goto("p2", {})
       ELSE IF ShouldRetry(outcome, attempt + 1) THEN
          /\ attempt' = attempt + 1
          /\ Goto("p2", {})
          /\ UNCHANGED <<workforce, i>>
       ELSE
          /\ attempt' = 0
          /\ Abort(outcome, 2)
          /\ UNCHANGED <<workforce, i>>
    /\ UNCHANGED <<fnvars, p4seen, recipients>>
    /\ UNCHANGED <<cfg, sess, calls, save_failed, p1vars,
                   p3vars, p4vars, p5vars, p6vars, report>>

\* what one roster answer can hold
RosterAnswers == SeqsUpTo(RosterRows, MaxRows)

Phase2Fetch ==
    \E outcome \in Outcomes :
      \* an answer that is not read has no rows
      \E rows \in IF outcome = "ok" THEN RosterAnswers ELSE {<<>>} :
        /\ FetchWorkforce(outcome, rows)
        /\ UNCHANGED p2seen

\* the end of run_phase_2 and the test that follows it in sync()
Phase2Finish ==
    /\ pc = "p2"
    /\ last_outcome' = "none"
    /\ i > Len(ct_projects)
    /\ i' = 1
    /\ \E saved \in BOOLEAN :
        IF SaveRaises(saved) THEN
           /\ save_failed' = save_failed \cup {"ne_workforce.json"}
           /\ Abort("s3_error", 2)
        ELSE
           /\ save_failed' = save_failed
           /\ IF workforce = <<>>
              THEN Return(EmptyResultStatus(2), {"no_workforce_records"})
              ELSE Goto("p3", {})
    /\ UNCHANGED <<fnvars, seen, recipients>>
    /\ UNCHANGED <<cfg, sess, calls, attempt, started, p1vars, p2vars, p3vars,
                   p4vars, p5vars, p6vars, report>>

\* ------------------------------------------------------------- Phase 3
\* the data of one LDMEINFO_EMPL row: an employee is inactive, active with
\* e-mail address and both dates, or active with none of the three
Profiles ==
    {p \in [is_active : BOOLEAN, home_email_id : Emails,
            orig_hire_dt : IsoDates, birth_dt : IsoDates] :
        /\ (p.home_email_id = <<>>) = (p.orig_hire_dt = <<>>)
        /\ p.orig_hire_dt = p.birth_dt
        /\ ~p.is_active => p.orig_hire_dt # <<>>}

\* DeltekAPIClient.get_employee once its _post call has ended without an
\* exception leaving it: <<>> is None, <<e>> is the EmployeeRecord e.
\* A non-2xx answer is caught and gives None; so does an answer without rows.
GetEmployee(empl_id, outcome, rows) ==
    IF outcome = "http_error" \/ rows = <<>> THEN <<>>
    ELSE <<[empl_id |-> empl_id,
            is_active |-> rows[1].is_active,
            home_email_id |-> rows[1].home_email_id,
            orig_hire_dt |-> rows[1].orig_hire_dt,
            birth_dt |-> rows[1].birth_dt]>>

\* the body of the loop of run_phase_3, after get_employee has returned
Phase3Keep(emps, emp) ==
    IF emp = <<>> THEN emps
    ELSE IF ~emp[1].is_active THEN emps
    ELSE Append(emps, emp[1])

\* get_employee raises what _post raises, HTTPStatusError excepted
GetEmployeeRaises(outcome, made) ==
    /\ outcome \in {"timeout", "network_error", "bad_body"}
    /\ ~ShouldRetry(outcome, made)

\* one attempt of get_employee for employee workforce[i]
Phase3Lookup ==
    /\ pc = "p3"
    /\ i <= Len(workforce)
    /\ started' = started \cup {3}
    /\ \E outcome \in Outcomes, rows \in SeqsUpTo(Profiles, 1) :
        /\ outcome # "ok" => rows = <<>>
        /\ last_outcome' = outcome
        /\ IF ShouldRetry(outcome, attempt + 1) THEN
              /\ attempt' = attempt + 1
              /\ Goto("p3", {})
              /\ UNCHANGED <<looked_up, employees, i>>
           ELSE IF GetEmployeeRaises(outcome, attempt + 1) THEN
              /\ attempt' = 0
              /\ Abort(outcome, 3)
              /\ UNCHANGED <<looked_up, employees, i>>
           ELSE
              LET id == workforce[i].empl_id
                  emp == GetEmployee(id, outcome, rows)
              IN  /\ employees' = Phase3Keep(employees, emp)
                  /\ looked_up' = Append(looked_up, id)
                  /\ i' = i + 1
                  /\ attempt' = 0
                  /\ Goto("p3", {})
    /\ UNCHANGED <<fnvars, seen, recipients>>
    /\ UNCHANGED <<cfg, sess, calls, save_failed, p1vars, p2vars, p4vars,
                   p5vars, p6vars, report>>

\* the end of run_phase_3 and the test that follows it in sync()
Phase3Finish ==
    /\ pc = "p3"
    /\ last_outcome' = "none"
    /\ i > Len(workforce)
    /\ i' = 1
    /\ \E saved \in BOOLEAN :
        IF SaveRaises(saved) THEN
           /\ save_failed' = save_failed \cup {"ne_employees.json"}
           /\ Abort("s3_error", 3)
        ELSE
           /\ save_failed' = save_failed
           /\ IF employees = <<>>
              THEN Return(EmptyResultStatus(3),
                          {"no_active_employees_in_workforce"})
              ELSE Goto("p4", {})
    /\ UNCHANGED <<fnvars, seen, recipients>>
    /\ UNCHANGED <<cfg, sess, calls, attempt, started, p1vars, p2vars, p3vars,
                   p4vars, p5vars, p6vars, report>>

\* ------------------------------------------------------------- Phase 4
NoOffset == -1      \* paging.offset absent: paging.get("offset") is None

\* one Connecteam user, reduced to one custom field: its id and value
\* (NoId: empty value).  A user without the CF_CP_ID field is a user whose
\* field has another id; its value is one that is also an employee id.
Users ==
    {u \in [cf_id : {CF_CP_ID, CF_TITLE}, value : EmplIds \cup {NoId}] :
        u.cf_id = CF_TITLE => u.value = 1}

\* a collection that takes the value of the field whether empty or not
CollectPageAnyValue(cp_ids, users) ==
    cp_ids \cup {u.value : u \in {v \in Range(users) : v.cf_id = CF_CP_ID}}

\* the for loop over the users of one page in _collect_cp_ids_by_status
CollectPage(cp_ids, users) ==
    cp_ids \cup {u.value : u \in {v \in Range(users) :
                                    v.cf_id = CF_CP_ID /\ v.value # NoId}}

\* a loop that stops on an empty page only
PageEndsWhenEmpty(users, next, off) == users = <<>>

\* the two break conditions of the while loop
PageEnds(users, next, off) ==
    users = <<>> \/ next = NoOffset \/ next <= off

\* one attempt of _get_users_page(user_status, offset), ending in outcome,
\* and on an answer (users, next offset) one turn of the while loop of
\* _collect_cp_ids_by_status
GetUsersPage(outcome, users, next) ==
    /\ pc = "p4"
    /\ last_outcome' = outcome
    /\ user_status \in {"active", "archived"}
    /\ started' = started \cup {4}
    /\ tgt_called' = TRUE
    /\ IF outcome = "ok" THEN
          LET got == CollectPage(IF user_status = "active" THEN active_ids
                                 ELSE archived_ids, users)
          IN  /\ active_ids' =
                    IF user_status = "active" THEN got ELSE active_ids
              /\ archived_ids' =
                    IF user_status = "archived" THEN got ELSE archived_ids
              /\ IF PageEnds(users, next, offset) THEN
                    /\ offset' = 0
                    /\ user_status' = IF user_status = "active"
                                      THEN "archived" ELSE "done"
                 ELSE
                    /\ offset' = next
                    /\ user_status' = user_status
              /\ attempt' = 0
              /\ Goto("p4", {})
       ELSE IF ShouldRetry(outcome, attempt + 1) THEN
          /\ attempt' = attempt + 1
          /\ Goto("p4", {})
          /\ UNCHANGED <<user_status, offset, active_ids, archived_ids>>
       ELSE
          /\ attempt' = 0
          /\ Abort(outcome, 4)
          /\ UNCHANGED <<user_status, offset, active_ids, archived_ids>>
    /\ UNCHANGED <<fnvars, p2seen, recipients>>
    /\ UNCHANGED <<cfg, sess, src_called, save_failed, p1vars,
                   i, p2vars, p3vars, existing_cp_ids, p5vars, p6vars,
                   report>>

\* what one page answer can hold
PageUsers == SeqsUpTo(Users, MaxUsers)
NextOffsets == {NoOffset} \cup (0..MaxOffset)

Phase4Page ==
    \E outcome \in Outcomes :
      \* an answer that is not read has no users and no offset
      \E users \in IF outcome = "ok" THEN PageUsers ELSE {<<>>},
         next \in IF outcome = "ok" THEN NextOffsets ELSE {NoOffset} :
        /\ GetUsersPage(outcome, users, next)
        /\ UNCHANGED seen

\* get_existing_cp_ids: the union of the two sets
GetExistingCpIds(active, archived) == active \cup archived

\* the end of get_existing_cp_ids and of run_phase_4
Phase4Finish ==
    /\ pc = "p4"
    /\ last_outcome' = "none"
    /\ user_status = "done"
    /\ existing_cp_ids' = GetExistingCpIds(active_ids, archived_ids)
    /\ active_ids' = {}        \* the locals of get_existing_cp_ids are gone
    /\ archived_ids' = {}
    /\ \E saved \in BOOLEAN :
        IF SaveRaises(saved) THEN
           /\ save_failed' = save_failed \cup {"ne_existing_cp_ids.json"}
           /\ Abort("s3_error", 4)
        ELSE
           /\ save_failed' = save_failed
           /\ Goto("p5", {})
    /\ UNCHANGED <<fnvars, seen, recipients>>
    /\ UNCHANGED <<cfg, sess, calls, attempt, started, p1vars,
                   i, p2vars, p3vars, user_status, offset, p5vars, p6vars,
                   report>>

\* ------------------------------------------------------------- Phase 5
\* a Phase 5 that forgets the filter and returns every employee id
RunPhase5NoFilter(emps, existing) == [k \in 1..Len(emps) |-> emps[k].empl_id]

\* a Phase 5 that goes through the workforce instead of the employees
RunPhase5OverWorkforce(emps, existing) ==
    LET Missing(w) == w.empl_id \notin existing
        kept == SelectSeq(workforce, Missing)
    IN  [k \in 1..Len(kept) |-> kept[k].empl_id]

\* a Phase 5 that returns the missing ids last first
RunPhase5Reversed(emps, existing) ==
    LET Missing(e) == e.empl_id \notin existing
        kept == SelectSeq(emps, Missing)
    IN  [k \in 1..Len(kept) |-> kept[Len(kept) + 1 - k].empl_id]

\* run_phase_5: [eid for eid in employees if eid not in existing_cp_ids]
RunPhase5(emps, existing) ==
    LET Missing(e) == e.empl_id \notin existing
        kept == SelectSeq(emps, Missing)
    IN  [k \in 1..Len(kept) |-> kept[k].empl_id]

\* run_phase_5 and the test that follows it in sync()
Phase5 ==
    /\ pc = "p5"
    /\ last_outcome' = "none"
    /\ started' = started \cup {5}
    /\ missing_ids' = RunPhase5(employees, existing_cp_ids)
    /\ \E saved \in BOOLEAN :
        IF SaveRaises(saved) THEN
           /\ save_failed' = save_failed \cup {"ne_employees_to_add.json"}
           /\ Abort("s3_error", 5)
        ELSE
           /\ save_failed' = save_failed
           /\ IF RunPhase5(employees, existing_cp_ids) = <<>>
              THEN Return(EmptyResultStatus(5),
                          {"all_ct_employees_already_in_connecteam"})
              ELSE Goto("p6", {})
    /\ UNCHANGED <<fnvars, seen, recipients>>
    /\ UNCHANGED <<cfg, sess, calls, attempt, p1vars, i, p2vars, p3vars,
                   p4vars, p6vars, report>>

\* ------------------------------------------------------------- Phase 6
\* format_date: '2011-07-11T00:00:00' -> '07/11/2011', as <<month, day, year>>
FormatDate(iso) == <<iso[2], iso[3], iso[1]>>

\* get_team: the project id prefix decides the team
GetTeam(proj) ==
    IF proj \in SecurityProjs THEN "FL Security 2025" ELSE "FL Baker 2025"

\* a build_payload that sends every field, with an empty value when the
\* employee has none
BuildPayloadEmptyValues(wf, emp) ==
    [userType |-> "user", isArchived |-> FALSE,
     customFields |->
        <<[customFieldId |-> CF_CP_ID, value |-> emp.empl_id],
          [customFieldId |-> CF_TITLE, value |-> wf.bill_lab_cat_cd],
          [customFieldId |-> CF_BRANCH, value |-> wf.proj_id],
          [customFieldId |-> CF_TEAM, value |-> GetTeam(wf.proj_id)],
          [customFieldId |-> CF_HIRE_DATE,
           value |-> IF emp.orig_hire_dt # <<>>
                     THEN FormatDate(emp.orig_hire_dt) ELSE <<>>],
          [customFieldId |-> CF_BIRTH_DATE,
           value |-> IF emp.birth_dt # <<>>
                     THEN FormatDate(emp.birth_dt) ELSE <<>>]>>,
     email |-> emp.home_email_id]

\* ConnecteamAPIClient.build_payload (names and the project name left out).
\* The payload is a function of its keys: "email" is a key only when the
\* employee has an e-mail address.
BuildPayload(wf, emp) ==
    LET fixed == <<[customFieldId |-> CF_CP_ID, value |-> emp.empl_id],
                   [customFieldId |-> CF_TITLE, value |-> wf.bill_lab_cat_cd],
                   [customFieldId |-> CF_BRANCH, value |-> wf.proj_id],
                   [customFieldId |-> CF_TEAM, value |-> GetTeam(wf.proj_id)]>>
        hire == IF emp.orig_hire_dt # <<>>
                THEN <<[customFieldId |-> CF_HIRE_DATE,
                        value |-> FormatDate(emp.orig_hire_dt)]>>
                ELSE <<>>
        birth == IF emp.birth_dt # <<>>
                 THEN <<[customFieldId |-> CF_BIRTH_DATE,
                         value |-> FormatDate(emp.birth_dt)]>>
                 ELSE <<>>
        base == [userType |-> "user", isArchived |-> FALSE,
                 customFields |-> fixed \o hire \o birth]
    IN  IF emp.home_email_id # <<>>
        THEN base @@ [email |-> emp.home_email_id]
        ELSE base

\* the preview list of the dry run
BuildPreview(wfs, emps, missing) ==
    [k \in 1..Len(missing) |->
        [empl_id |-> missing[k],
         payload |-> BuildPayload(Lookup(wfs, missing[k]),
                                  Lookup(emps, missing[k]))]]

\* run_phase_6 with dry_run set: no request, an empty result list
Phase6DryRun ==
    /\ pc = "p6"
    /\ last_outcome' = "none"
    /\ dry_run
    /\ started' = started \cup {6}
    /\ preview' = BuildPreview(workforce, employees, missing_ids)
    /\ \E saved \in BOOLEAN :
        IF SaveRaises(saved) THEN
           /\ save_failed' = save_failed \cup {"ne_dry_run_preview.json"}
           /\ Abort("s3_error", 6)
        ELSE
           /\ save_failed' = save_failed
           /\ Goto("report", {})
    /\ UNCHANGED <<fnvars, seen, recipients>>
    /\ UNCHANGED <<cfg, sess, calls, attempt, p1vars, i, p2vars, p3vars,
                   p4vars, p5vars, results, post_calls, posts, report>>

\* the result dict post_user returns for a 2xx or a non-2xx answer
PostUser(id, outcome) == [success |-> outcome = "ok", empl_id |-> id]

\* post_user catches HTTPStatusError only; response.json() of the 2xx answer
\* is read inside the try block, after the user has been created
PostUserRaises(outcome, made) ==
    /\ outcome \in {"timeout", "network_error", "bad_body"}
    /\ ~ShouldRetry(outcome, made)

\* one attempt of post_user for employee missing_ids[i]: one creation request
Phase6Post ==
    /\ pc = "p6"
    /\ ~dry_run
    /\ i <= Len(missing_ids)
    /\ started' = started \cup {6}
    /\ tgt_called' = TRUE
    /\ \E outcome \in Outcomes :
        LET id == missing_ids[i]
            payload == BuildPayload(Lookup(workforce, id), Lookup(employees, id))
        IN  /\ last_outcome' = outcome
            /\ post_calls' = IF attempt = 0 THEN Append(post_calls, id)
                             ELSE post_calls
            /\ posts' = Append(posts, [empl_id |-> payload.customFields[1].value,
                                       outcome |-> outcome])
            /\ IF ShouldRetry(outcome, attempt + 1) THEN
                  /\ attempt' = attempt + 1
                  /\ Goto("p6", {})
                  /\ UNCHANGED <<results, i>>
               ELSE IF PostUserRaises(outcome, attempt + 1) THEN
                  /\ attempt' = 0
                  /\ Abort(outcome, 6)
                  /\ UNCHANGED <<results, i>>
               ELSE
                  /\ results' = Append(results, PostUser(id, outcome))
                  /\ i' = i + 1
                  /\ attempt' = 0
                  /\ Goto("p6", {})
    /\ UNCHANGED <<fnvars, seen, recipients>>
    /\ UNCHANGED <<cfg, sess, src_called, save_failed, p1vars, p2vars, p3vars,
                   p4vars, p5vars, preview, report>>

\* the end of run_phase_6 in live mode
Phase6Finish ==
    /\ pc = "p6"
    /\ last_outcome' = "none"
    /\ ~dry_run
    /\ i > Len(missing_ids)
    /\ \E saved \in BOOLEAN :
        IF SaveRaises(saved) THEN
           /\ save_failed' = save_failed \cup {"ne_import_results.json"}
           /\ Abort("s3_error", 6)
        ELSE
           /\ save_failed' = save_failed
           /\ Goto("report", {})
    /\ UNCHANGED <<fnvars, seen, recipients>>
    /\ UNCHANGED <<cfg, sess, calls, attempt, started, p1vars, i, p2vars,
                   p3vars, p4vars, p5vars, p6vars, report>>

\* ------------------------------------------------- report and final status
\* a final status that fails the run only when every creation failed
FinalStatusAllFailed(res, dry) ==
    IF ~dry /\ res # <<>> /\ \A k \in 1..Len(res) : ~res[k].success
    THEN 1 ELSE 0

\* the end of sync(): 1 when a live run has a failed result, else 0
FinalStatus(res, dry) ==
    IF ~dry /\ \E k \in 1..Len(res) : ~res[k].success THEN 1 ELSE 0

\* send_import_email in live mode: without a recipient nothing is sent;
\* an exception of the SES call is caught
SendImportEmail(has_recipients, accepted) ==
    IF ~has_recipients THEN "skipped"
    ELSE IF accepted THEN "emailed"
    ELSE "send_failed"

\* an end of sync() that fails the run when the report was not delivered
ReportDeliveryFatal ==
    /\ pc = "report"
    /\ last_outcome' = "none"
    /\ started' = started \cup {7}
    /\ IF dry_run THEN
          \E saved \in BOOLEAN :
            IF SaveRaises(saved) THEN
               /\ save_failed' = save_failed \cup {"dry_run_email_preview.html"}
               /\ UNCHANGED <<report, recipients>>
               /\ Abort("s3_error", 7)
            ELSE
               /\ save_failed' = save_failed
               /\ report' = "html_saved"
               /\ recipients' = recipients
               /\ Return(FinalStatus(results, dry_run), {"pipeline_complete"})
       ELSE
          \E rc \in {"none", "some"}, accepted \in BOOLEAN :
            /\ save_failed' = save_failed
            /\ recipients' = rc
            /\ report' = SendImportEmail(rc = "some", accepted)
            /\ IF SendImportEmail(rc = "some", accepted) # "emailed"
               THEN Return(1, {"pipeline_complete_with_failures"})
               ELSE Return(FinalStatus(results, dry_run),
                           IF FinalStatus(results, dry_run) = 1
                           THEN {"pipeline_complete_with_failures"}
                           ELSE {"pipeline_complete"})
    /\ UNCHANGED <<fnvars, seen, cfg, sess, calls, attempt, p1vars, i, p2vars,
                   p3vars, p4vars, p5vars, p6vars>>

\* send_import_email and the rest of the try block of sync(): the value
\* send_import_email returns is not looked at
Report ==
    /\ pc = "report"
    /\ last_outcome' = "none"
    /\ started' = started \cup {7}
    /\ IF dry_run THEN
          \E saved \in BOOLEAN :
            IF SaveRaises(saved) THEN
               /\ save_failed' = save_failed \cup {"dry_run_email_preview.html"}
               /\ UNCHANGED <<report, recipients>>
               /\ Abort("s3_error", 7)
            ELSE
               /\ save_failed' = save_failed
               /\ report' = "html_saved"
               /\ recipients' = recipients
               /\ Return(FinalStatus(results, dry_run), {"pipeline_complete"})
       ELSE
          \E rc \in {"none", "some"}, accepted \in BOOLEAN :
            /\ save_failed' = save_failed
            /\ recipients' = rc
            /\ report' = SendImportEmail(rc = "some", accepted)
            /\ Return(FinalStatus(results, dry_run),
                      IF FinalStatus(results, dry_run) = 1
                      THEN {"pipeline_complete_with_failures"}
                      ELSE {"pipeline_complete"})
    /\ UNCHANGED <<fnvars, seen, cfg, sess, calls, attempt, p1vars, i, p2vars,
                   p3vars, p4vars, p5vars, p6vars>>

\* ------------------------------------------------------------------ spec
Next ==
    \/ LoadConfig
    \/ CreateClients
    \/ Phase1
    \/ Phase2Fetch
    \/ Phase2Finish
    \/ Phase3Lookup
    \/ Phase3Finish
    \/ Phase4Page
    \/ Phase4Finish
    \/ Phase5
    \/ Phase6DryRun
    \/ Phase6Post
    \/ Phase6Finish
    \/ Report
    \/ Finally

Spec == Init /\ [][Next]_vars

TypeOK ==
    /\ pc \in {"config", "clients", "p1", "p2", "p3", "p4", "p5", "p6",
               "report", "finally", "done"}
    /\ exit \in {"running", "returned", "raised"}
    /\ status \in {0, 1}
    /\ attempt \in 0..(RetryAttempts - 1)
    /\ started \subseteq 1..7
    /\ Range(ct_projects) \subseteq ProjIds
    /\ Keys(employees) \subseteq Keys(workforce)
    /\ Range(missing_ids) \subseteq Keys(employees)

\* ------------------------------------------------------------ unit calls
\* One behaviour is one call of one function on arguments of its domain,
\* outside a run of sync().
UnitIds == 1..MaxEmps

\* an EmployeeRecord that run_phase_3 keeps: an active employee
ActiveEmployee(id) ==
    [empl_id |-> id, is_active |-> TRUE, home_email_id |-> <<>>,
     orig_hire_dt |-> <<>>, birth_dt |-> <<>>]

\* the dicts empl_id -> EmployeeRecord: sequences with distinct keys
EmployeeDicts ==
    {[k \in 1..Len(ids) |-> ActiveEmployee(ids[k])] :
        ids \in {q \in SeqsUpTo(UnitIds, MaxEmps) :
                    \A a, b \in 1..Len(q) : a # b => q[a] # q[b]}}

\* the arguments of run_phase_5(employees, existing_cp_ids)
RunPhase5Inputs ==
    {<<"run_phase_5", emps, existing>> :
        emps \in EmployeeDicts, existing \in SUBSET UnitIds}

\* ISO date-time strings, one of them not at midnight
UnitDates == IsoDates \cup {<<1990, 12, 31, 23, 59, 59>>}

\* the arguments of build_payload(workforce, employee)
BuildPayloadInputs ==
    {<<"build_payload", wf, emp>> :
        wf \in [empl_id : {1}, proj_id : ProjIds, bill_lab_cat_cd : Cats],
        emp \in [empl_id : {1}, is_active : {TRUE}, home_email_id : Emails,
                 orig_hire_dt : UnitDates, birth_dt : UnitDates]}

\* roster rows with two labor categories
UnitCats == {"GUARD", "SUPV"}
UnitRosterRows == [empl_id : EmplIds \cup {NoId}, dflt : BOOLEAN, cat : UnitCats]

\* the workforce dicts run_phase_2 can hold when it calls get_workforce for
\* project proj: records of the other project
WorkforceSoFar(proj) ==
    {[k \in 1..Len(ids) |->
        [empl_id |-> ids[k], proj_id |-> other, bill_lab_cat_cd |-> "GUARD"]] :
        ids \in {q \in SeqsUpTo(EmplIds, Cardinality(EmplIds)) :
                    \A a, b \in 1..Len(q) : a # b => q[a] # q[b]},
        other \in ProjIds \ {proj}}

\* the answers a roster request can get
UnitRosterAnswers == SeqsUpTo(UnitRosterRows, MaxUnitRows)

UnitInit ==
    /\ pc = "fn"
    /\ dry_run = FALSE
    /\ Fresh
    /\ \/ fn_in \in RunPhase5Inputs
       \/ fn_in \in BuildPayloadInputs
       \* get_workforce(proj_id, proj_name): the rows it is answered with,
       \* its argument, and the workforce of run_phase_2 at the call
       \/ \E proj \in ProjIds, rows \in UnitRosterAnswers :
             \E wf \in WorkforceSoFar(proj) :
               fn_in = <<"get_workforce", rows, proj, wf>>
    /\ fn_out = <<>>

\* run_phase_5: the list comprehension, then save_json, then the return
CallRunPhase5 ==
    /\ pc = "fn"
    /\ fn_in[1] = "run_phase_5"
    /\ fn_out = <<>>
    /\ \E saved \in BOOLEAN :
        fn_out' = IF SaveRaises(saved) THEN <<"raised">>
                  ELSE <<"returned", RunPhase5(fn_in[2], fn_in[3])>>
    /\ UNCHANGED <<runvars, fn_in>>

\* build_payload: it sends nothing and saves nothing
CallBuildPayload ==
    /\ pc = "fn"
    /\ fn_in[1] = "build_payload"
    /\ fn_out = <<>>
    /\ fn_out' = <<"returned", BuildPayload(fn_in[2], fn_in[3])>>
    /\ UNCHANGED <<runvars, fn_in>>

\* get_workforce and the loop of run_phase_2 over what it returned; outcome
\* is how the last attempt of _post ended, and every outcome but a 2xx
\* answer leaves get_workforce as an exception
CallGetWorkforce ==
    /\ pc = "fn"
    /\ fn_in[1] = "get_workforce"
    /\ fn_out = <<>>
    /\ \E outcome \in Outcomes :
        fn_out' =
            IF outcome = "ok"
            THEN <<"returned",
                   [records |-> GetWorkforce(fn_in[2], fn_in[3]),
                    workforce |->
                        MergeRecords(fn_in[4],
                                     GetWorkforce(fn_in[2], fn_in[3]))]>>
            ELSE <<"raised", outcome>>
    /\ UNCHANGED <<runvars, fn_in>>

UnitNext ==
    \/ CallRunPhase5
    \/ CallBuildPayload
    \/ CallGetWorkforce

SpecUnit == UnitInit /\ [][UnitNext]_vars

\* ------------------------------------------------------- phases observed
\* sync() has come to position p without an error: the phases in done have
\* returned projs, wf and emps, and nothing has been sent to Connecteam
CameTo(p, done, projs, wf, emps) ==
    /\ pc = p
    /\ dry_run \in BOOLEAN
    /\ deltek_secret = "ok"
    /\ ct_secret = "ok"
    /\ exit = "running"
    /\ status = 0
    /\ log = {"pipeline_starting", "configurations_loaded"}
    /\ deltek_client = "open"
    /\ ct_client = "open"
    /\ src_called = TRUE
    /\ tgt_called = FALSE
    /\ attempt = 0
    /\ last_outcome = "none"
    /\ started = done
    /\ fatal = "none"
    /\ fatal_phase = 0
    /\ save_failed = {}
    /\ ct_projects = projs
    /\ i = 1
    /\ workforce = wf
    /\ rosters = <<>>
    /\ looked_up = [k \in 1..Len(wf) |-> wf[k].empl_id]
    /\ employees = emps
    /\ user_status = "active"
    /\ offset = 0
    /\ active_ids = {}
    /\ archived_ids = {}
    /\ existing_cp_ids = {}
    /\ last_page = <<>>
    /\ listed = {}
    /\ missing_ids = <<>>
    /\ preview = <<>>
    /\ results = <<>>
    /\ post_calls = <<>>
    /\ posts = <<>>
    /\ report = "none"
    /\ recipients = "unread"
    /\ fn_in = <<>>
    /\ fn_out = <<>>

\* One behaviour is one call of run_phase_2 in a run of sync() in which
\* Phase 1 returned two projects, with every roster returned written down.
RosterInit ==
    \E projs \in {<<1, 2>>, <<2, 1>>} :
        CameTo("p2", {1}, projs, <<>>, <<>>)

\* Phase2Fetch, with what get_workforce returned written down
FetchRoster ==
    \E outcome \in Outcomes :
      \* an answer that is not read has no rows
      \E rows \in IF outcome = "ok" THEN RosterAnswers ELSE {<<>>} :
        /\ FetchWorkforce(outcome, rows)
        /\ rosters' =
              IF outcome = "ok"
              THEN Append(rosters,
                          [proj_id |-> ct_projects[i],
                           records |-> GetWorkforce(rows, ct_projects[i])])
              ELSE rosters

RosterNext ==
    \/ FetchRoster
    \/ Phase2Finish

SpecRoster == RosterInit /\ [][RosterNext]_vars

\* One behaviour is one call of run_phase_4 in a run of sync() that has come
\* to Phase 4, with every page answer written down.
ListingInit ==
    CameTo("p4", {1, 2, 3}, <<1, 2>>,
           <<[empl_id |-> 1, proj_id |-> 1, bill_lab_cat_cd |-> "GUARD"],
             [empl_id |-> 2, proj_id |-> 2, bill_lab_cat_cd |-> "GUARD"]>>,
           <<ActiveEmployee(1), ActiveEmployee(2)>>)

\* Phase4Page, with the answer and the set it met written down
ListPage ==
    \E outcome \in Outcomes :
      \* an answer that is not read has no users and no offset
      \E users \in IF outcome = "ok" THEN PageUsers ELSE {<<>>},
         next \in IF outcome = "ok" THEN NextOffsets ELSE {NoOffset} :
        /\ GetUsersPage(outcome, users, next)
        /\ IF outcome = "ok" THEN
              /\ last_page' =
                    [status |-> user_status, offset |-> offset,
                     users |-> users, next |-> next,
                     cp_ids |-> IF user_status = "active"
                                THEN active_ids ELSE archived_ids]
              /\ listed' = listed \cup
                               {<<user_status, u>> : u \in Range(users)}
           ELSE UNCHANGED p4seen

ListingNext ==
    \/ ListPage
    \/ Phase4Finish

SpecListing == ListingInit /\ [][ListingNext]_vars

\* ---------------------------------------------------- one run after another
\* One behaviour is a live call of sync() and, when it has ended, another
\* call of sync() over the same Costpoint data.  fn_in holds, next to the
\* name of the function, what stays the same from call to call: the data in
\* Costpoint (source), which call is under way (run), and what the first call
\* left in Connecteam (left).  Every request of either call ends in any of
\* Outcomes; a request that is answered is answered from source.

\* the data in Costpoint: the rows of the project document, of each project's
\* roster, and of each employee's LDMEINFO_EMPL document (none when Costpoint
\* does not know the employee)
Sources ==
    [proj_rows : {<<[proj_id |-> 1, ct |-> TRUE], [proj_id |-> 2, ct |-> TRUE]>>},
     rosters : {[p \in ProjIds |->
                   IF p = 1
                   THEN <<[empl_id |-> 1, dflt |-> TRUE, cat |-> "GUARD"]>>
                   ELSE <<[empl_id |-> 2, dflt |-> TRUE, cat |-> "GUARD"],
                          [empl_id |-> 1, dflt |-> TRUE, cat |-> "GUARD"]>>]},
     profiles : {f \in [EmplIds -> SeqsUpTo(Profiles, 1)] :
                    /\ \A e \in EmplIds :
                          f[e] # <<>> /\ f[e][1].home_email_id # <<>>
                    /\ f[1][1].is_active}]

\* nothing has been left in Connecteam by an earlier call
NothingLeft ==
    [employees |-> {}, existing |-> {}, created |-> {}, all_created |-> FALSE]

AgainInit ==
    /\ pc = "config"
    /\ dry_run = FALSE
    /\ Fresh
    /\ \E src \in Sources :
          fn_in = <<"sync", [source |-> src, run |-> 1, left |-> NothingLeft]>>
    /\ fn_out = <<>>

\* the data in Costpoint during the behaviour
Source == fn_in[2].source

\* Phase1, the project request answered from the source
ProjectsFromSource ==
    /\ Phase1
    /\ last_outcome' = "ok" => ct_projects' = GetCtProjects(Source.proj_rows)

\* Phase2Fetch, the roster request answered from the source
RosterFromSource ==
    /\ pc = "p2"
    /\ i <= Len(ct_projects)
    /\ \E outcome \in Outcomes :
          FetchWorkforce(outcome, IF outcome = "ok"
                                  THEN Source.rosters[ct_projects[i]]
                                  ELSE <<>>)
    /\ UNCHANGED p2seen

\* Phase3Lookup, the employee request answered from the source
EmployeeFromSource ==
    /\ Phase3Lookup
    /\ last_outcome' = "ok" =>
          employees' =
             Phase3Keep(employees,
                        GetEmployee(workforce[i].empl_id, "ok",
                                    Source.profiles[workforce[i].empl_id]))

\* the first call's listing
ListFirst ==
    /\ fn_in[2].run = 1
    /\ Phase4Page

\* the following call's listing, with the users it reported written down
ListAgain ==
    /\ fn_in[2].run = 2
    /\ \E outcome \in Outcomes :
      \* an answer that is not read has no users and no offset
      \E users \in IF outcome = "ok" THEN PageUsers ELSE {<<>>},
         next \in IF outcome = "ok" THEN NextOffsets ELSE {NoOffset} :
        /\ GetUsersPage(outcome, users, next)
        /\ listed' = IF outcome = "ok"
                     THEN listed \cup {<<user_status, u>> : u \in Range(users)}
                     ELSE listed
        /\ UNCHANGED last_page

\* what a call that has ended leaves for the next: the ids of the employees
\* its Phase 3 kept, the Costpoint ids its listing found, the Costpoint id
\* field of every payload Connecteam answered with 2xx, and whether it was a
\* live call that created every missing employee
LeftBehind ==
    [employees |-> Keys(employees),
     existing |-> existing_cp_ids,
     created |-> {posts[k].empl_id :
                    k \in {j \in 1..Len(posts) :
                             posts[j].outcome \in {"ok", "bad_body"}}},
     all_created |-> /\ ~dry_run
                     /\ 6 \in started
                     /\ missing_ids # <<>>
                     /\ Len(results) = Len(missing_ids)
                     /\ \A k \in 1..Len(results) : results[k].success]

\* sync() is called again after the first call has ended
StartAgain ==
    /\ pc = "done"
    /\ fn_in[2].run = 1
    /\ fn_in' = <<"sync", [source |-> Source, run |-> 2, left |-> LeftBehind]>>
    /\ pc' = "config"
    /\ dry_run' \in BOOLEAN
    /\ deltek_secret' = "unread"
    /\ ct_secret' = "unread"
    /\ exit' = "running"
    /\ status' = 0
    /\ log' = {"pipeline_starting"}
    /\ deltek_client' = "none"
    /\ ct_client' = "none"
    /\ src_called' = FALSE
    /\ tgt_called' = FALSE
    /\ attempt' = 0
    /\ last_outcome' = "none"
    /\ started' = {}
    /\ fatal' = "none"
    /\ fatal_phase' = 0
    /\ save_failed' = {}
    /\ ct_projects' = <<>>
    /\ i' = 1
    /\ workforce' = <<>>
    /\ rosters' = <<>>
    /\ looked_up' = <<>>
    /\ employees' = <<>>
    /\ user_status' = "active"
    /\ offset' = 0
    /\ active_ids' = {}
    /\ archived_ids' = {}
    /\ existing_cp_ids' = {}
    /\ last_page' = <<>>
    /\ listed' = {}
    /\ missing_ids' = <<>>
    /\ preview' = <<>>
    /\ results' = <<>>
    /\ post_calls' = <<>>
    /\ posts' = <<>>
    /\ report' = "none"
    /\ recipients' = "unread"
    /\ UNCHANGED fn_out

AgainNext ==
    \/ LoadConfig
    \/ CreateClients
    \/ ProjectsFromSource
    \/ RosterFromSource
    \/ Phase2Finish
    \/ EmployeeFromSource
    \/ Phase3Finish
    \/ ListFirst
    \/ ListAgain
    \/ Phase4Finish
    \/ Phase5
    \/ Phase6DryRun
    \/ Phase6Post
    \/ Phase6Finish
    \/ Report
    \/ Finally
    \/ StartAgain

SpecAgain == AgainInit /\ [][AgainNext]_vars

\* ------------------------------------------------------------------ claims
\* the keys of a dict, in insertion order
KeySeq(d) == [k \in 1..Len(d) |-> d[k].empl_id]

Failed(res) == {k \in 1..Len(res) : ~res[k].success}

\* the run is over, whichever way sync() was left
Over == pc = "done"

\* the live Phase 6 was entered and has ended, by return or by exception
LivePhase6Ended == ~dry_run /\ 6 \in started /\ pc # "p6"

\* C1: a creation request is sent only for an employee id that Phase 2
\* returned as a default member of a qualifying project, that Phase 3
\* resolved as active, and that is not in the set Phase 4 returned.
C1_CreationOnlyForMissingActive ==
    \A k \in 1..Len(posts) :
        LET id == posts[k].empl_id
        IN  /\ id \in Keys(workforce)
            /\ Lookup(workforce, id).proj_id \in Range(ct_projects)
            /\ id \in Range(looked_up)
            /\ id \in Keys(employees)
            /\ Lookup(employees, id).is_active
            /\ id \notin existing_cp_ids

\* a run that created one employee and left out another, active one that
\* Connecteam already had
C1_Witness ==
    /\ Over
    /\ posts # <<>>
    /\ \E id \in Keys(employees) : id \in existing_cp_ids

\* C2: in live mode, whatever the outcomes of the creations, Phase 6 calls
\* post_user once for every id of MissingList, in order, and has one result
\* per id in the same order.
C2_EveryMissingIdAttempted ==
    LivePhase6Ended =>
        /\ post_calls = missing_ids
        /\ KeySeq(results) = missing_ids

\* C3 as stated: no employee id is the subject of two creation requests,
\* also when a creation call times out.
C3_OneRequestPerId ==
    \A j, k \in 1..Len(posts) :
        j # k => posts[j].empl_id # posts[k].empl_id

\* C3 amended: post_user is invoked at most once per employee id; a request
\* for an id is sent again only when the previous request for that id timed
\* out, and at most three requests are sent for one id.
C3_OneCallPerIdRetryOnTimeoutOnly ==
    /\ \A j, k \in 1..Len(post_calls) :
          j # k => post_calls[j] # post_calls[k]
    /\ \A j, k \in 1..Len(posts) :
          (j < k /\ posts[j].empl_id = posts[k].empl_id) =>
              /\ posts[j].outcome = "timeout"
              /\ \A m \in j..k : posts[m].empl_id = posts[j].empl_id
    /\ \A id \in EmplIds :
          Cardinality({k \in 1..Len(posts) : posts[k].empl_id = id}) <= 3

\* three requests for one employee (two timeouts), then the next employee
C3_Witness ==
    /\ Len(posts) >= 4
    /\ posts[1].empl_id = posts[3].empl_id
    /\ posts[4].empl_id # posts[3].empl_id
    /\ post_calls = missing_ids

\* C4: a live run in which Phase 6 completed returns 1 if and only if some
\* creation result has success = false, and 0 otherwise.
C4_StatusIffSomeCreationFailed ==
    (~dry_run /\ 7 \in started /\ exit = "returned") =>
        /\ status = 1 <=> Failed(results) # {}
        /\ status = 0 <=> Failed(results) = {}

\* a live run that returned 1 with one failed and one successful creation
C4_Witness ==
    /\ ~dry_run
    /\ exit = "returned"
    /\ status = 1
    /\ Len(results) = 2
    /\ Cardinality(Failed(results)) = 1

\* C5: a dry run with a non-empty MissingList sends no creation request,
\* builds a preview with one payload per id of MissingList, returns an empty
\* result list, saves the HTML preview instead of mailing it, and returns 0.
C5_DryRunPreviewsAndSucceeds ==
    (dry_run /\ 6 \in started) =>
        /\ posts = <<>>
        /\ post_calls = <<>>
        /\ KeySeq(preview) = missing_ids
        /\ results = <<>>
        /\ report \in {"none", "html_saved"}
        /\ Over => (report = "html_saved" /\ status = 0)

\* C6: once both client sessions are acquired, both are closed when sync()
\* is left, on every path.
C6_SessionsReleased ==
    /\ (deltek_client = "none") = (ct_client = "none")
    /\ (Over /\ deltek_client # "none") =>
          (deltek_client = "closed" /\ ct_client = "closed")
    /\ (started # {}) => deltek_client # "none"

\* a run aborted by an exception in Phase 3, with both sessions closed
C6_Witness ==
    /\ Over
    /\ fatal = "timeout"
    /\ fatal_phase = 3
    /\ deltek_client = "closed"
    /\ ct_client = "closed"

\* C7: in Phase 3 no outcome of a lookup aborts the loop or the run: every
\* employee id of the Phase-2 mapping is looked up, and the output holds
\* exactly the found and active ids in Phase-2 order.
C7_Phase3NeverAborts ==
    (3 \in started /\ pc # "p3") =>
        /\ looked_up = KeySeq(workforce)
        /\ fatal_phase # 3 \/ fatal = "s3_error"

\* C8: a configuration error (a secret missing, not retrievable, not
\* decodable, or lacking required values for either system) is logged, no
\* call goes to Costpoint or Connecteam, and sync() returns 1.
C8_ConfigErrorFatal ==
    (deltek_secret \notin {"unread", "ok"} \/ ct_secret \notin {"unread", "ok"})
    =>  /\ ~src_called
        /\ ~tgt_called
        /\ exit = "returned"
        /\ status = 1
        /\ "configuration_error" \in log

\* the exception of an outbound call left Phase 1, 2 or 4
FetchFailed ==
    /\ fatal \in {"http_error", "timeout", "network_error", "bad_body"}
    /\ fatal_phase \in {1, 2, 4}

\* C9: a fetch failure in Phase 1, Phase 2 (any project's roster) or Phase 4
\* ends the run: no later phase runs, no creation request is sent, the error
\* is logged as pipeline_fatal_error, and sync() returns 1.
C9_FetchFailureFatal ==
    FetchFailed =>
        /\ pc \in {"finally", "done"}
        /\ started \subseteq 1..fatal_phase
        /\ posts = <<>>
        /\ preview = <<>>
        /\ report = "none"
        /\ "pipeline_fatal_error" \in log
        /\ status = 1

\* the roster query of the second project failed after the first project's
\* roster had been merged
C9_Witness ==
    /\ Over
    /\ exit = "returned"
    /\ fatal = "http_error"
    /\ fatal_phase = 2
    /\ workforce # <<>>

\* the snapshot file each phase writes
SnapshotOf(k) ==
    CASE k = 1 -> {"ne_ct_projects.json"}
      [] k = 2 -> {"ne_workforce.json"}
      [] k = 3 -> {"ne_employees.json"}
      [] k = 4 -> {"ne_existing_cp_ids.json"}
      [] k = 5 -> {"ne_employees_to_add.json"}
      [] k = 6 -> {"ne_dry_run_preview.json", "ne_import_results.json"}

\* the output of phase k is not one of the empty results that end the run
PhaseOutputGoesOn(k) ==
    CASE k = 1 -> ct_projects # <<>>
      [] k = 2 -> workforce # <<>>
      [] k = 3 -> employees # <<>>
      [] k = 5 -> missing_ids # <<>>
      [] OTHER -> TRUE

\* C10: a failed snapshot write does not abort the pipeline: the phase after
\* the one whose write failed still runs, and a failed write of the HTML
\* preview leaves the status of the dry run at 0.
C10_SnapshotFireAndForget ==
    Over =>
        /\ \A k \in 1..6 :
              (SnapshotOf(k) \cap save_failed # {} /\ PhaseOutputGoesOn(k))
                  => (k + 1) \in started
        /\ "dry_run_email_preview.html" \in save_failed => status = 0

\* phase k was entered and has returned its result to sync()
PhaseReturned(k) ==
    k \in started /\ fatal_phase # k /\ pc # ("p" \o ToString(k))

\* C11 as stated: when Phase 1 returns no qualifying project, no later phase
\* runs and sync() returns 0.
C11_NoProjectsReturnsZero ==
    (PhaseReturned(1) /\ ct_projects = <<>>) =>
        /\ started = {1}
        /\ status = 0

\* C11 amended: when Phase 1 returns no qualifying project, no later phase
\* runs, no_ct_projects_found is logged and sync() returns 1.
C11_NoProjectsReturnsOne ==
    (PhaseReturned(1) /\ ct_projects = <<>>) =>
        /\ pc \in {"finally", "done"}
        /\ started = {1}
        /\ ~tgt_called
        /\ "no_ct_projects_found" \in log
        /\ "pipeline_fatal_error" \notin log
        /\ status = 1

\* a run that ended after a Phase 1 without qualifying projects
C11_Witness ==
    /\ Over
    /\ exit = "returned"
    /\ PhaseReturned(1)
    /\ ct_projects = <<>>
    /\ save_failed = {}

\* C12: when Phase 3 returns no active employee, sync() returns 0 and the
\* target system is never queried (Phases 4-6 and the report do not run);
\* when Phase 5 returns an empty MissingList, sync() returns 0 and neither
\* Phase 6 nor the report runs.
C12_NothingToDoReturnsZero ==
    /\ (PhaseReturned(3) /\ employees = <<>>) =>
          /\ pc \in {"finally", "done"}
          /\ status = 0
          /\ ~tgt_called
          /\ started = {1, 2, 3}
          /\ report = "none"
    /\ (PhaseReturned(5) /\ missing_ids = <<>>) =>
          /\ pc \in {"finally", "done"}
          /\ status = 0
          /\ started = {1, 2, 3, 4, 5}
          /\ posts = <<>>
          /\ preview = <<>>
          /\ report = "none"

\* a run that ended because every active employee already is in Connecteam
C12_Witness ==
    /\ Over
    /\ exit = "returned"
    /\ PhaseReturned(5)
    /\ employees # <<>>
    /\ missing_ids = <<>>
    /\ status = 0

\* the unit call of function f has returned
Returned(f) ==
    /\ fn_in # <<>>
    /\ fn_in[1] = f
    /\ fn_out # <<>>
    /\ fn_out[1] = "returned"

\* the place of x in a sequence without repeats
Pos(q, x) == CHOOSE k \in 1..Len(q) : q[k] = x

\* C14: run_phase_5(D, E) returns exactly the keys of D that are not in E,
\* each once, in the order in which D holds them.
C14_MissingIsOrderedDifference ==
    Returned("run_phase_5") =>
        LET d == KeySeq(fn_in[2])
            e == fn_in[3]
            m == fn_out[2]
        IN  /\ Range(m) = Range(d) \ e
            /\ \A a, b \in 1..Len(m) : a # b => m[a] # m[b]
            /\ \A a, b \in 1..Len(m) :
                  a < b => Pos(d, m[a]) < Pos(d, m[b])

\* a call that dropped a key of D and returned two others, not in
\* ascending order
C14_Witness ==
    /\ Returned("run_phase_5")
    /\ Range(KeySeq(fn_in[2])) \cap fn_in[3] # {}
    /\ Len(fn_out[2]) >= 2
    /\ fn_out[2][1] > fn_out[2][2]

\* the dedup keys of a set of listed users: the non-empty values of their
\* CF_CP_ID field
DedupKeys(users) ==
    {u.value : u \in {v \in users : v.cf_id = CF_CP_ID /\ v.value # NoId}}

\* the set _collect_cp_ids_by_status holds, or has returned, for a status
Collected(st) == IF st = "active" THEN active_ids ELSE archived_ids

\* C13: the loop of _collect_cp_ids_by_status for a status ends with the
\* page that has no users, or whose next offset is absent or not greater
\* than the offset asked for, and goes on otherwise; when it ends it returns
\* the keys collected before that page together with those of that page.
C13_PagingStops ==
    (pc = "p4" /\ last_page # <<>>) =>
        LET lp == last_page
            stop == \/ lp.users = <<>>
                    \/ lp.next = NoOffset
                    \/ lp.next <= lp.offset
        IN  /\ Collected(lp.status) = lp.cp_ids \cup DedupKeys(Range(lp.users))
            /\ stop => /\ user_status # lp.status
                       /\ user_status =
                            IF lp.status = "active" THEN "archived" ELSE "done"
                       /\ offset = 0
            /\ ~stop => /\ user_status = lp.status
                        /\ offset = lp.next
                        /\ offset > lp.offset

\* the loop for status active ended on a second page that had a user with a
\* new key and a next offset that did not advance
C13_Witness ==
    /\ pc = "p4"
    /\ last_page # <<>>
    /\ last_page.status = "active"
    /\ last_page.offset > 0
    /\ last_page.next # NoOffset
    /\ last_page.next <= last_page.offset
    /\ DedupKeys(Range(last_page.users)) \ last_page.cp_ids # {}
    /\ last_page.cp_ids # {}
    /\ user_status = "archived"

\* the users listed so far under a status
Listed(st) == {u \in Users : <<st, u>> \in listed}

\* C19: get_existing_cp_ids returns the union of the dedup keys of the users
\* listed under status active and of those listed under status archived; a
\* user whose CF_CP_ID field is absent or empty adds nothing.
C19_ExistingIsUnionOfBoth ==
    [][(pc = "p4" /\ user_status = "done") =>
          /\ existing_cp_ids' =
                DedupKeys(Listed("active")) \cup DedupKeys(Listed("archived"))
          /\ NoId \notin existing_cp_ids']_vars

\* both listings have ended; one key was listed under both statuses, and a
\* user without the field and a user with an empty field were listed too
C19_Witness ==
    /\ pc = "p4"
    /\ user_status = "done"
    /\ DedupKeys(Listed("active")) \cap DedupKeys(Listed("archived")) # {}
    /\ \E p \in listed : p[2].cf_id = CF_CP_ID /\ p[2].value = NoId
    /\ \E p \in listed : p[2].cf_id # CF_CP_ID /\ p[2].value # NoId
                         /\ p[2].value \notin DedupKeys(Listed(p[1]))

\* the projects, in order of call, whose roster held employee e
RostersWith(e) == {k \in 1..Len(rosters) : e \in Keys(rosters[k].records)}

\* the first of a non-empty set of numbers
First(S) == CHOOSE k \in S : \A m \in S : k <= m

\* C15: run_phase_2 asks for the rosters in the order of the Phase 1 mapping;
\* its merged mapping holds every employee of a roster once, with the
\* record of the first roster that held the employee, and nobody else.
C15_FirstRosterWins ==
    pc = "p2" =>
        /\ \A k \in 1..Len(rosters) : rosters[k].proj_id = ct_projects[k]
        /\ \A a, b \in 1..Len(workforce) :
              a # b => workforce[a].empl_id # workforce[b].empl_id
        /\ Keys(workforce) = {e \in EmplIds : RostersWith(e) # {}}
        /\ \A e \in Keys(workforce) :
              Lookup(workforce, e) =
                  Lookup(rosters[First(RostersWith(e))].records, e)

\* project 2 was processed before project 1, both rosters held the same
\* employee, and the loop has ended
C15_Witness ==
    /\ pc = "p2"
    /\ ct_projects = <<2, 1>>
    /\ i > Len(ct_projects)
    /\ \E e \in EmplIds :
          /\ RostersWith(e) = {1, 2}
          /\ Lookup(workforce, e).proj_id = 2
    /\ Len(workforce) = 2

\* C16: a call to Costpoint or Connecteam is attempted again only after a
\* timeout, and never after its third attempt; an attempt answered with a
\* non-2xx status is the last of its call, and the call ends with it: the
\* error aborts the run, or is the None of get_employee, or is the failed
\* result of post_user.
C16_RetryOnTimeoutOnly ==
    /\ attempt < 3
    /\ attempt > 0 => last_outcome = "timeout"
    /\ last_outcome \in {"ok", "http_error", "network_error", "bad_body"} =>
          attempt = 0
    /\ last_outcome = "http_error" =>
          \/ /\ pc = "finally"
             /\ fatal = "http_error"
             /\ fatal_phase \in {1, 2, 4}
          \/ /\ pc = "p3"
             /\ looked_up # <<>>
             /\ looked_up[Len(looked_up)] \notin Keys(employees)
          \/ /\ pc = "p6"
             /\ results # <<>>
             /\ ~results[Len(results)].success
             /\ posts[Len(posts)].outcome = "http_error"

\* a request to Connecteam has timed out twice and is about to be sent for
\* the third time
C16_Witness ==
    /\ pc = "p4"
    /\ attempt = 2
    /\ last_outcome = "timeout"
    /\ tgt_called

\* C17: send_import_email is called, and a report exists, only in a run
\* whose Phase 6 has returned; a run that left an earlier phase, or Phase 6,
\* by an exception or by an early return never calls it.
C17_ReportOnlyAfterPhase6 ==
    /\ (7 \in started \/ report # "none" \/ pc = "report") =>
          /\ started \in {1..6, 1..7}
          /\ PhaseReturned(6)
          /\ fatal_phase \notin 1..6
          /\ missing_ids # <<>>
          /\ IF dry_run THEN KeySeq(preview) = missing_ids
             ELSE Len(results) = Len(missing_ids)
    /\ (fatal_phase \in 1..6 \/ (Over /\ ~PhaseReturned(6))) =>
          /\ 7 \notin started
          /\ report = "none"
          /\ recipients = "unread"

\* a live run that sent a creation request and was then aborted inside
\* Phase 6 ended without a report
C17_Witness ==
    /\ Over
    /\ fatal_phase = 6
    /\ posts # <<>>
    /\ results # <<>>
    /\ 7 \notin started
    /\ report = "none"

\* C18: in a live run the report is skipped when no recipient is configured,
\* and whether it was sent, skipped or failed to be sent, sync() returns
\* without a fatal error the status the creation results alone decide.
C18_DeliveryNeverFatal ==
    (~dry_run /\ 7 \in started) =>
        /\ recipients \in {"none", "some"}
        /\ report = "skipped" <=> recipients = "none"
        /\ report \in {"skipped", "emailed", "send_failed"}
        /\ fatal = "none"
        /\ "pipeline_fatal_error" \notin log
        /\ status = IF Failed(results) # {} THEN 1 ELSE 0

\* a live run in which every creation succeeded and the SES call failed
\* has returned 0
C18_Witness ==
    /\ Over
    /\ ~dry_run
    /\ report = "send_failed"
    /\ results # <<>>
    /\ status = 0
    /\ exit = "returned"

\* the custom fields of payload p that have id cf
FieldsOf(p, cf) ==
    {k \in 1..Len(p.customFields) : p.customFields[k].customFieldId = cf}

\* the date of an ISO date-time string as month, day, year
MonthDayYear(iso) == <<iso[2], iso[3], iso[1]>>

\* payload p has the date d under custom field cf exactly when d is not
\* empty, and then once, as month/day/year
DateFieldOk(p, cf, d) ==
    IF d = <<>> THEN FieldsOf(p, cf) = {}
    ELSE /\ Cardinality(FieldsOf(p, cf)) = 1
         /\ \A k \in FieldsOf(p, cf) :
               p.customFields[k].value = MonthDayYear(d)

\* C20: build_payload returns a payload for every employee; the payload has
\* the hire date field, the birth date field and the email key exactly when
\* the employee's value is not empty, and no field with an empty value.
C20_EmptyValuesLeftOut ==
    (fn_in # <<>> /\ fn_in[1] = "build_payload" /\ fn_out # <<>>) =>
        /\ fn_out[1] = "returned"
        /\ LET emp == fn_in[3]
               p == fn_out[2]
           IN  /\ DateFieldOk(p, CF_HIRE_DATE, emp.orig_hire_dt)
               /\ DateFieldOk(p, CF_BIRTH_DATE, emp.birth_dt)
               /\ ("email" \in DOMAIN p) <=> (emp.home_email_id # <<>>)
               /\ "email" \in DOMAIN p => p.email = emp.home_email_id
               /\ \A k \in FieldsOf(p, CF_HIRE_DATE) \cup
                            FieldsOf(p, CF_BIRTH_DATE) :
                     p.customFields[k].value # <<>>
               /\ FieldsOf(p, CF_CP_ID) = {1}
               /\ p.customFields[1].value = emp.empl_id

\* a payload was built for an employee without email address and without
\* hire date, but with a birth date
C20_Witness ==
    /\ Returned("build_payload")
    /\ fn_in[3].home_email_id = <<>>
    /\ fn_in[3].orig_hire_dt = <<>>
    /\ fn_in[3].birth_dt # <<>>
    /\ fn_in[3].birth_dt[4] # 0
    /\ "email" \notin DOMAIN fn_out[2]
    /\ FieldsOf(fn_out[2], CF_BIRTH_DATE) # {}

\* the rows of a roster answer that name employee e and carry the default
\* flag, by their place in the answer
DefaultPlaces(rows, e) ==
    {k \in 1..Len(rows) : rows[k].empl_id = e /\ rows[k].dflt}

\* C21: get_workforce returns at most one record per employee id; an
\* employee with a row that carries the default flag has the record built
\* from the first such row, an employee without one has no record, and
\* run_phase_2 then stores nothing under its id, which stays free for a
\* later project.
C21_OneRecordFromFirstDefaultRow ==
    Returned("get_workforce") =>
        LET rows == fn_in[2]
            proj == fn_in[3]
            before == fn_in[4]
            recs == fn_out[2].records
            after == fn_out[2].workforce
        IN  /\ \A a, b \in 1..Len(recs) :
                  a # b => recs[a].empl_id # recs[b].empl_id
            /\ Keys(recs) \subseteq EmplIds
            /\ \A e \in EmplIds :
                  IF DefaultPlaces(rows, e) = {}
                  THEN /\ e \notin Keys(recs)
                       /\ e \in Keys(after) <=> e \in Keys(before)
                  ELSE /\ e \in Keys(recs)
                       /\ Lookup(recs, e) =
                            [empl_id |-> e, proj_id |-> proj,
                             bill_lab_cat_cd |->
                                 rows[First(DefaultPlaces(rows, e))].cat]
                       /\ e \in Keys(after)

\* employee 1 had a row without the flag and then two rows with it, of
\* different labor categories, or the like; employee 2 had no row with the
\* flag and is in neither the records nor the workforce
C21_Witness ==
    /\ Returned("get_workforce")
    /\ \E e \in EmplIds :
          /\ Cardinality(DefaultPlaces(fn_in[2], e)) >= 2
          /\ \E k \in DefaultPlaces(fn_in[2], e) :
                fn_in[2][k].cat # Lookup(fn_out[2].records, e).bill_lab_cat_cd
    /\ \E e \in EmplIds :
          /\ \E k \in 1..Len(fn_in[2]) : fn_in[2][k].empl_id = e
          /\ DefaultPlaces(fn_in[2], e) = {}
          /\ e \notin Keys(fn_out[2].workforce)

\* the places of dict d that hold key e
PlacesOf(d, e) == {k \in 1..Len(d) : d[k].empl_id = e}

\* C22: once sync() has come to Phase 6, every key of employees is a key of
\* workforce, and missing_ids holds no id twice and only ids under which
\* workforce and employees each hold exactly one record, so that
\* workforce[eid] and employees[eid] are defined for every id Phase 6 and
\* the report look up.
C22_LookupsNeverFail ==
    (pc = "p6" \/ 6 \in started) =>
        /\ Keys(employees) \subseteq Keys(workforce)
        /\ \A a, b \in 1..Len(missing_ids) :
              a # b => missing_ids[a] # missing_ids[b]
        /\ \A k \in 1..Len(missing_ids) :
              /\ Cardinality(PlacesOf(workforce, missing_ids[k])) = 1
              /\ Cardinality(PlacesOf(employees, missing_ids[k])) = 1
        /\ \A k \in 1..Len(preview) : preview[k].empl_id \in Keys(employees)
        /\ \A k \in 1..Len(post_calls) : post_calls[k] \in Keys(employees)

\* a run that rendered its report for a missing employee while another
\* employee of the workforce had been dropped in Phase 3
C22_Witness ==
    /\ Over
    /\ 7 \in started
    /\ report # "none"
    /\ Len(workforce) = 2
    /\ Len(employees) = 1
    /\ Len(missing_ids) = 1

\* the following call of sync() is under way or has ended
Again == fn_in # <<>> /\ fn_in[1] = "sync" /\ fn_in[2].run = 2

\* the listing of the following call reported a user whose Costpoint id
\* field holds id, under either status
Reported(id) ==
    \E l \in listed : l[2].cf_id = CF_CP_ID /\ l[2].value = id

\* C23: when a live run has created every missing employee, and the listing
\* of the following run, over the same Costpoint data, is read to its end
\* and reports each created user with its employee id in the Costpoint id
\* field, then the following run computes an empty MissingList, sends no
\* creation request and returns 0.
C23_FollowingRunCreatesNothing ==
    (/\ Again
     /\ fn_in[2].left.all_created
     /\ Over
     /\ user_status = "done"
     /\ \A id \in fn_in[2].left.created : Reported(id))
        => /\ PhaseReturned(5)
           /\ missing_ids = <<>>
           /\ posts = <<>>
           /\ preview = <<>>
           /\ exit = "returned"
           /\ status = 0

\* Phase 3 of the following run kept the employees the first run had kept
SameLookups == Keys(employees) = fn_in[2].left.employees

\* What holds of C23: when moreover the following run's listing still
\* reports the ids the first run found and its lookups ended as those of the
\* first run, the following run sends no creation request, and once its
\* Phase 5 has returned MissingList is empty and the status is 0.
C23_WhenNothingElseChanged ==
    (/\ Again
     /\ fn_in[2].left.all_created
     /\ PhaseReturned(5)
     /\ SameLookups
     /\ \A id \in fn_in[2].left.created \cup fn_in[2].left.existing :
           Reported(id))
        => /\ missing_ids = <<>>
           /\ posts = <<>>
           /\ preview = <<>>
           /\ pc \in {"finally", "done"}
           /\ status = 0

\* a following run that ended with nothing to do, after a first run that
\* found employee 1 in Connecteam and created employee 2
C23_NothingToDoAgain ==
    /\ Again
    /\ fn_in[2].left.all_created
    /\ fn_in[2].left.existing = {1}
    /\ fn_in[2].left.created = {2}
    /\ Over
    /\ PhaseReturned(5)
    /\ Reported(1)
    /\ Reported(2)
    /\ Keys(employees) = {1, 2}
    /\ missing_ids = <<>>
    /\ status = 0

\* a following run that found every created user in the listing and ended
\* with status 1 because the write of ne_existing_cp_ids.json raised
C23_SnapshotFailsAgain ==
    /\ Again
    /\ fn_in[2].left.all_created
    /\ Over
    /\ user_status = "done"
    /\ \A id \in fn_in[2].left.created : Reported(id)
    /\ fatal = "s3_error"
    /\ fatal_phase = 4
    /\ status = 1

\* a following run that sent a creation request for employee 2, whose lookup
\* had been answered with a non-2xx status in the first run
C23_DroppedThenCreated ==
    /\ Again
    /\ fn_in[2].left.all_created
    /\ fn_in[2].left.existing = {}
    /\ fn_in[2].left.created = {1}
    /\ Reported(1)
    /\ ~dry_run
    /\ posts # <<>>
    /\ posts[1].empl_id = 2

====
